---- MODULE Spec2Model ----
(***************************************************************************)
(* Model of fetch-contentful-users-and-groups.js: the paginated fetch      *)
(* routine, the three collection procedures, role-name extraction and the  *)
(* merge of the three passes into the unified user map written as CSV.     *)
(*                                                                         *)
(* JavaScript values are modelled as follows.  A missing / undefined /     *)
(* falsy string is the empty string "".  A membership item is a record     *)
(* [user, admin, roles, role]; `roles` that is absent or not an array is   *)
(* the empty sequence (the guard on line 127 treats both alike).  A user   *)
(* object of an includes block is [id, email, firstName, lastName].  The   *)
(* Map allUsers is a function whose DOMAIN is the set of keys present.     *)
(* The plain objects userMap and userToTeams are the sequences of their    *)
(* values in insertion order, each value carrying its key as userId.       *)
(***************************************************************************)
EXTENDS Integers, Sequences, FiniteSets, TLC

\* ---------------------------------------------------------------- bounds
MaxItems == 2
MaxTeams == 2
MaxRoles == 2
MaxTotal == 250

\* ------------------------------------------------------ program constants
limit == 100

AdminLabel == "Admin"

JoinSeparator == "; "

\* ------------------------------------------------------------ environment
\* The remote API: what the organization holds.  The items of the three
\* list endpoints are drawn in Init; team rosters and user objects are fixed.

UserObjects ==
  [u \in {"U1", "U2", "U3"} |->
     CASE u = "U1" -> [id |-> "U1", email |-> "ann@x.io", firstName |-> "Ann", lastName |-> "Lee"]
       [] u = "U2" -> [id |-> "U2", email |-> "bo@x.io",  firstName |-> "Bo",  lastName |-> ""]
       [] u = "U3" -> [id |-> "U3", email |-> "cy@x.io",  firstName |-> "",    lastName |-> "Cy"]]

\* An includes entry without sys.id, which line 45 must ignore.
AnonymousUser == [id |-> "", email |-> "ghost@x.io", firstName |-> "No", lastName |-> "Id"]

Item(u, a, rs, r) == [user |-> u, admin |-> a, roles |-> rs, role |-> r]

Named(n) == [name |-> n]

OrgFeed ==
  << Item("U1", TRUE,  <<Named("Editor")>>, ""),
     Item("U1", FALSE, <<Named("Editor"), Named(""), Named("Owner")>>, "Admin"),
     Item("",   TRUE,  <<>>, "Owner") >>

SpaceFeed ==
  << Item("U2", TRUE,  <<>>, "Admin"),
     Item("",   FALSE, <<Named("Viewer")>>, ""),
     Item("U1", FALSE, <<Named("Viewer"), Named("Editor")>>, "Viewer") >>

TeamFeed ==
  << [id |-> "T1", name |-> "Design"],
     [id |-> "T2", name |-> "Design"],
     [id |-> "",   name |-> "Ghost"],
     [id |-> "T3", name |-> "Ops"] >>

TeamRoster(teamId) ==
  CASE teamId = "T1" -> << Item("U2", FALSE, <<>>, ""), Item("", FALSE, <<>>, "") >>
    [] teamId = "T2" -> << Item("U3", FALSE, <<>>, ""), Item("U2", FALSE, <<>>, "") >>
    [] teamId = "T3" -> << Item("U2", FALSE, <<>>, ""), Item("U1", FALSE, <<>>, "") >>
    [] OTHER -> << >>

\* n consecutive entries of a feed, read cyclically from position start.
Window(feed, start, n) ==
  [i \in 1..n |-> feed[((start + i - 2) % Len(feed)) + 1]]

Windows(feed, maxLen) ==
  {<< >>} \cup {Window(feed, s, n) : s \in 1..Len(feed), n \in 1..maxLen}

OrgUrl == [endpoint |-> "organization_memberships", team |-> ""]

SpaceUrl == [endpoint |-> "space_memberships", team |-> ""]

TeamsUrl == [endpoint |-> "teams", team |-> ""]

MembershipsUrl(teamId) == [endpoint |-> "team_memberships", team |-> teamId]

VARIABLES
  server,          \* what the remote API holds: [org, space, teams, includes]
  pc,              \* position of the main async function
  fpc,             \* position inside fetchPagedDataWithIncludes
  url,             \* its url argument
  skip,            \* its skip counter
  allItems,        \* its accumulated items
  allUsers,        \* its accumulated side-table, user id -> user object
  inflight,        \* number of requests awaiting their response
  requests,        \* every request issued so far: [url, skip, limit]
  responses,       \* every response so far: [url, skip, ok, users], users
                   \* being the user objects its includes block carried
  userMap,         \* user id -> unified record
  orgItems, orgUsers,
  spaceItems, spaceUsers,
  allTeams,        \* fetchTeamMemberships: the team list
  teamMemberships, \* fetchTeamMemberships: the current team's memberships
  userToTeams,     \* fetchTeamMemberships: entries [userId, teamNames], in insertion order
  i,               \* index of the loop the program is in
  t,               \* index of the team loop of fetchTeamMemberships
  finalData,       \* the rows handed to the CSV parser
  written,         \* contentful_users.csv was written
  errorLogged,     \* "Script error:" was logged by the top-level catch
  exitCode,        \* exit status of the process, -1 while it runs
  membership,      \* argument of a direct getRoleNames call
  result           \* what that call returned

vars == << server, pc, fpc, url, skip, allItems, allUsers, inflight, requests,
           responses, userMap, orgItems, orgUsers, spaceItems, spaceUsers,
           allTeams, teamMemberships, userToTeams, i, t, finalData, written,
           errorLogged, exitCode, membership, result >>

fetchVars == << fpc, url, skip, allItems, allUsers, inflight, requests, responses >>

mainVars == << pc, userMap, orgItems, orgUsers, spaceItems, spaceUsers, allTeams,
               teamMemberships, userToTeams, i, t, finalData, written,
               errorLogged, exitCode >>

EmptyMap == [k \in {} |-> ""]

Min(a, b) == IF a < b THEN a ELSE b

\* ------------------------------------------------------------- the server
\* The items an endpoint lists, in server order.
Data(u) ==
  CASE u.endpoint = "organization_memberships" -> server.org
    [] u.endpoint = "space_memberships" -> server.space
    [] u.endpoint = "teams" -> server.teams
    [] OTHER -> TeamRoster(u.team)

\* resp.data.items for a request with the given skip and limit.
PageItems(u, s, l) == SubSeq(Data(u), s + 1, Min(s + l, Len(Data(u))))

\* resp.data.includes.User: the user objects the page's items refer to, when
\* the endpoint expands sys.user and the server sends the block at all.
PageIncludes(u, s, l) ==
  LET items == PageItems(u, s, l)
      refs  == SelectSeq(items, LAMBDA m : m.user # "")
      sends == /\ u.endpoint # "teams"
               /\ Len(items) > 0
               /\ \/ server.includes = "all"
                  \/ server.includes = "not_org" /\ u.endpoint # "organization_memberships"
  IN IF sends
       THEN <<AnonymousUser>> \o [k \in 1..Len(refs) |-> UserObjects[refs[k].user]]
       ELSE << >>

\* --------------------------------------------- fetchPagedDataWithIncludes
\* Lines 43-49: allUsers.set(u.sys.id, u) for every included user with an id,
\* in block order, so a later entry replaces an earlier one with the same id.
SetUsers(users, block) ==
  LET ids == {block[k].id : k \in 1..Len(block)} \ {""}
      last(id) == CHOOSE k \in 1..Len(block) :
                    /\ block[k].id = id
                    /\ \A j \in (k+1)..Len(block) : block[j].id # id
  IN [id \in (DOMAIN users) \cup ids |->
        IF id \in ids THEN block[last(id)] ELSE users[id]]

\* Lines 19-24: the call itself, with its locals initialised.
CallFetch(u) ==
  /\ fpc = "idle"
  /\ fpc' = "request"
  /\ url' = u
  /\ skip' = 0
  /\ allItems' = << >>
  /\ allUsers' = EmptyMap
  /\ UNCHANGED << inflight, requests, responses >>

\* Lines 28-37: axios.get is issued and the function suspends on it.
Request ==
  /\ fpc = "request"
  /\ fpc' = "await"
  /\ inflight' = inflight + 1
  /\ requests' = Append(requests, [url |-> url, skip |-> skip, limit |-> limit])
  /\ UNCHANGED << server, url, skip, allItems, allUsers, responses >>
  /\ UNCHANGED mainVars
  /\ UNCHANGED << membership, result >>

\* RespondOk with the loop left only once skip > total.
RespondOkOffByOne ==
  /\ fpc = "await"
  /\ LET items == PageItems(url, skip, limit)
         block == PageIncludes(url, skip, limit)
         total == Len(Data(url))
     IN /\ allItems' = allItems \o items
        /\ allUsers' = SetUsers(allUsers, block)
        /\ skip' = skip + limit
        /\ fpc' = IF skip + limit > total THEN "done" ELSE "request"
        /\ responses' = Append(responses,
             [url |-> url, skip |-> skip, ok |-> TRUE,
              users |-> SetUsers(EmptyMap, block)])
  /\ inflight' = inflight - 1
  /\ UNCHANGED << server, url, requests >>
  /\ UNCHANGED mainVars
  /\ UNCHANGED << membership, result >>

\* Lines 39-54: the response arrived; items and included users are merged,
\* skip advances and the loop ends once skip >= total.
RespondOk ==
  /\ fpc = "await"
  /\ LET items == PageItems(url, skip, limit)
         block == PageIncludes(url, skip, limit)
         total == Len(Data(url))
     IN /\ allItems' = allItems \o items
        /\ allUsers' = SetUsers(allUsers, block)
        /\ skip' = skip + limit
        /\ fpc' = IF skip + limit >= total THEN "done" ELSE "request"
        /\ responses' = Append(responses,
             [url |-> url, skip |-> skip, ok |-> TRUE,
              users |-> SetUsers(EmptyMap, block)])
  /\ inflight' = inflight - 1
  /\ UNCHANGED << server, url, requests >>
  /\ UNCHANGED mainVars
  /\ UNCHANGED << membership, result >>

\* RespondFail with the catch going round the loop again instead of leaving it.
RespondFailRetries ==
  /\ fpc = "await"
  /\ fpc' = "request"
  /\ inflight' = inflight - 1
  /\ responses' = Append(responses,
       [url |-> url, skip |-> skip, ok |-> FALSE, users |-> EmptyMap])
  /\ UNCHANGED << server, url, skip, allItems, allUsers, requests >>
  /\ UNCHANGED mainVars
  /\ UNCHANGED << membership, result >>

\* RespondFail with the catch rethrowing: the error reaches the catch of the
\* main function, which logs it and ends the run.
RespondFailRethrows ==
  /\ fpc = "await"
  /\ fpc' = "done"
  /\ inflight' = inflight - 1
  /\ responses' = Append(responses,
       [url |-> url, skip |-> skip, ok |-> FALSE, users |-> EmptyMap])
  /\ pc' = "end" /\ errorLogged' = TRUE
  /\ UNCHANGED << server, url, skip, allItems, allUsers, requests >>
  /\ UNCHANGED << userMap, orgItems, orgUsers, spaceItems, spaceUsers, allTeams,
                  teamMemberships, userToTeams, i, t, finalData, written, exitCode >>
  /\ UNCHANGED << membership, result >>

\* Lines 55-58: the request failed; the error is logged and the loop is left.
RespondFail ==
  /\ fpc = "await"
  /\ fpc' = "done"
  /\ inflight' = inflight - 1
  /\ responses' = Append(responses,
       [url |-> url, skip |-> skip, ok |-> FALSE, users |-> EmptyMap])
  /\ UNCHANGED << server, url, skip, allItems, allUsers, requests >>
  /\ UNCHANGED mainVars
  /\ UNCHANGED << membership, result >>

\* ------------------------------------------------------------ getRoleNames
\* [...new Set(xs)]: the first occurrence of every element, in order.
Dedupe(xs) ==
  LET keep == {k \in 1..Len(xs) : \A j \in 1..(k-1) : xs[j] # xs[k]}
      F[k \in 0..Len(xs)] ==
        IF k = 0 THEN << >>
        ELSE IF k \in keep THEN Append(F[k-1], xs[k]) ELSE F[k-1]
  IN F[Len(xs)]

\* getRoleNames with the legacy role pushed before the roles array is read.
getRoleNamesLegacyFirst(m) ==
  LET fromAdmin == IF m.admin THEN <<AdminLabel>> ELSE << >>
      named     == SelectSeq(m.roles, LAMBDA r : r.name # "")
      fromRoles == [k \in 1..Len(named) |-> named[k].name]
      fromRole  == IF m.role # "" THEN <<m.role>> ELSE << >>
  IN Dedupe(fromAdmin \o fromRole \o fromRoles)

\* Lines 118-143.
getRoleNames(m) ==
  LET fromAdmin == IF m.admin THEN <<AdminLabel>> ELSE << >>
      named     == SelectSeq(m.roles, LAMBDA r : r.name # "")
      fromRoles == [k \in 1..Len(named) |-> named[k].name]
      fromRole  == IF m.role # "" THEN <<m.role>> ELSE << >>
  IN Dedupe(fromAdmin \o fromRoles \o fromRole)

\* ------------------------------------------------------- the unified map
\* userMap is kept as the sequence of its values in insertion order, which
\* is the order Object.values lists them in; the key of a record is userId.
Has(um, id) == \E k \in 1..Len(um) : um[k].userId = id

\* Lines 164 / 199: userObj?.email || "".
EmailOf(users, id) == IF id \in DOMAIN users THEN users[id].email ELSE ""

\* Lines 165-167 / 200-202: `${firstName || ""} ${lastName || ""}`.trim().
NameOf(users, id) ==
  LET first == IF id \in DOMAIN users THEN users[id].firstName ELSE ""
      last  == IF id \in DOMAIN users THEN users[id].lastName ELSE ""
  IN CASE first = "" -> last
       [] last = ""  -> first
       [] OTHER      -> first \o " " \o last

\* Lines 170-177, 205-212, 226-233: the object literal of a new record.
NewRecord(id, email, name) ==
  [userId |-> id, email |-> email, name |-> name,
   orgRoles |-> << >>, spaceRoles |-> << >>, teams |-> << >>]

\* Ensure without the existence test: a record is added for every item.
EnsureAppends(um, id, email, name) == Append(um, NewRecord(id, email, name))

\* Ensure that fills in email and name of an existing record that has none.
EnsureRefreshes(um, id, email, name) ==
  IF Has(um, id)
    THEN [k \in 1..Len(um) |->
            IF um[k].userId = id /\ um[k].email = ""
              THEN [um[k] EXCEPT !.email = email, !.name = name]
              ELSE um[k]]
    ELSE Append(um, NewRecord(id, email, name))

\* Lines 169-178 / 204-213 / 225-234: if (!userMap[userId]) userMap[userId] = {...}.
Ensure(um, id, email, name) ==
  IF Has(um, id) THEN um ELSE Append(um, NewRecord(id, email, name))

\* Union without the Set: the new names are appended as they come.
UnionKeepsAll(old, names) == old \o names

\* [...new Set([...old, ...names])]: lines 180-182, 215-217, 235-237.
Union(old, names) == Dedupe(old \o names)

\* Lines 155-183: one iteration of the organization-membership loop.
MergeOrg(um, m, users) ==
  IF m.user = "" THEN um
  ELSE LET um1 == Ensure(um, m.user, EmailOf(users, m.user), NameOf(users, m.user))
       IN [k \in 1..Len(um1) |->
             IF um1[k].userId = m.user
               THEN [um1[k] EXCEPT !.orgRoles = Union(@, getRoleNames(m))]
               ELSE um1[k]]

\* Lines 190-218: one iteration of the space-membership loop.
MergeSpace(um, m, users) ==
  IF m.user = "" THEN um
  ELSE LET um1 == Ensure(um, m.user, EmailOf(users, m.user), NameOf(users, m.user))
       IN [k \in 1..Len(um1) |->
             IF um1[k].userId = m.user
               THEN [um1[k] EXCEPT !.spaceRoles = Union(@, getRoleNames(m))]
               ELSE um1[k]]

\* Lines 224-238: one iteration of the loop over Object.entries(userToTeams).
MergeTeams(um, id, teamNames) ==
  LET um1 == Ensure(um, id, "", "")
  IN [k \in 1..Len(um1) |->
        IF um1[k].userId = id
          THEN [um1[k] EXCEPT !.teams = Union(@, teamNames)]
          ELSE um1[k]]

\* Lines 104-111: one iteration of the loop over a team's memberships.
AddTeam(utt, m, teamName) ==
  IF m.user = "" THEN utt
  ELSE LET utt1 == IF \E k \in 1..Len(utt) : utt[k].userId = m.user
                     THEN utt
                     ELSE Append(utt, [userId |-> m.user, teamNames |-> << >>])
       IN [k \in 1..Len(utt1) |->
             IF utt1[k].userId = m.user
               THEN [utt1[k] EXCEPT !.teamNames = Append(@, teamName)]
               ELSE utt1[k]]

\* Array.prototype.join(JoinSeparator).
RECURSIVE Join(_)
Join(xs) ==
  IF Len(xs) = 0 THEN ""
  ELSE IF Len(xs) = 1 THEN xs[1]
  ELSE xs[1] \o JoinSeparator \o Join(Tail(xs))

\* Lines 243-250: the row of one unified record.
Row(u) ==
  [userId |-> u.userId, email |-> u.email, name |-> u.name,
   orgRoles |-> Join(u.orgRoles), spaceRoles |-> Join(u.spaceRoles),
   teams |-> Join(u.teams)]

\* ------------------------------------------------------ the main function
keepEnv == UNCHANGED << server, membership, result >>

\* Lines 152-153 (via 68-71): fetchOrganizationMemberships is called.
CallOrg ==
  /\ pc = "start"
  /\ CallFetch(OrgUrl)
  /\ pc' = "org_fetch"
  /\ UNCHANGED << userMap, orgItems, orgUsers, spaceItems, spaceUsers, allTeams,
                  teamMemberships, userToTeams, i, t, finalData, written,
                  errorLogged, exitCode >>
  /\ keepEnv

\* Lines 61, 152: the fetch returned { allItems, allUsers }.
OrgFetched ==
  /\ pc = "org_fetch" /\ fpc = "done"
  /\ orgItems' = allItems /\ orgUsers' = allUsers
  /\ fpc' = "idle" /\ i' = 1 /\ pc' = "org_loop"
  /\ UNCHANGED << url, skip, allItems, allUsers, inflight, requests, responses >>
  /\ UNCHANGED << userMap, spaceItems, spaceUsers, allTeams, teamMemberships,
                  userToTeams, t, finalData, written, errorLogged, exitCode >>
  /\ keepEnv

\* Lines 155-183.
OrgItem ==
  /\ pc = "org_loop" /\ i <= Len(orgItems)
  /\ userMap' = MergeOrg(userMap, orgItems[i], orgUsers)
  /\ i' = i + 1
  /\ UNCHANGED fetchVars
  /\ UNCHANGED << pc, orgItems, orgUsers, spaceItems, spaceUsers, allTeams,
                  teamMemberships, userToTeams, t, finalData, written,
                  errorLogged, exitCode >>
  /\ keepEnv

\* Lines 188-189 (via 77-80): fetchSpaceMemberships is called.
CallSpace ==
  /\ pc = "org_loop" /\ i > Len(orgItems)
  /\ CallFetch(SpaceUrl)
  /\ pc' = "space_fetch"
  /\ UNCHANGED << userMap, orgItems, orgUsers, spaceItems, spaceUsers, allTeams,
                  teamMemberships, userToTeams, i, t, finalData, written,
                  errorLogged, exitCode >>
  /\ keepEnv

SpaceFetched ==
  /\ pc = "space_fetch" /\ fpc = "done"
  /\ spaceItems' = allItems /\ spaceUsers' = allUsers
  /\ fpc' = "idle" /\ i' = 1 /\ pc' = "space_loop"
  /\ UNCHANGED << url, skip, allItems, allUsers, inflight, requests, responses >>
  /\ UNCHANGED << userMap, orgItems, orgUsers, allTeams, teamMemberships,
                  userToTeams, t, finalData, written, errorLogged, exitCode >>
  /\ keepEnv

\* Lines 190-218.
SpaceItem ==
  /\ pc = "space_loop" /\ i <= Len(spaceItems)
  /\ userMap' = MergeSpace(userMap, spaceItems[i], spaceUsers)
  /\ i' = i + 1
  /\ UNCHANGED fetchVars
  /\ UNCHANGED << pc, orgItems, orgUsers, spaceItems, spaceUsers, allTeams,
                  teamMemberships, userToTeams, t, finalData, written,
                  errorLogged, exitCode >>
  /\ keepEnv

\* Lines 223, 88-89: fetchTeamMemberships is called and fetches the team list.
CallTeams ==
  /\ pc = "space_loop" /\ i > Len(spaceItems)
  /\ CallFetch(TeamsUrl)
  /\ pc' = "teams_fetch"
  /\ UNCHANGED << userMap, orgItems, orgUsers, spaceItems, spaceUsers, allTeams,
                  teamMemberships, userToTeams, i, t, finalData, written,
                  errorLogged, exitCode >>
  /\ keepEnv

\* Lines 89-91: allTeams is bound and userToTeams starts empty.
TeamsFetched ==
  /\ pc = "teams_fetch" /\ fpc = "done"
  /\ allTeams' = allItems /\ userToTeams' = << >>
  /\ fpc' = "idle" /\ t' = 1 /\ pc' = "team_loop"
  /\ UNCHANGED << url, skip, allItems, allUsers, inflight, requests, responses >>
  /\ UNCHANGED << userMap, orgItems, orgUsers, spaceItems, spaceUsers,
                  teamMemberships, i, finalData, written, errorLogged, exitCode >>
  /\ keepEnv

\* SkipsTeam without the test of line 96.
SkipsNoTeam(team) == FALSE

\* Lines 93-96: a team without sys.id is skipped.
SkipsTeam(team) == team.id = ""

TeamSkip ==
  /\ pc = "team_loop" /\ t <= Len(allTeams)
  /\ SkipsTeam(allTeams[t])
  /\ t' = t + 1
  /\ UNCHANGED fetchVars
  /\ UNCHANGED << pc, userMap, orgItems, orgUsers, spaceItems, spaceUsers, allTeams,
                  teamMemberships, userToTeams, i, finalData, written,
                  errorLogged, exitCode >>
  /\ keepEnv

\* Lines 98-102: the team's memberships are fetched.
CallMemberships ==
  /\ pc = "team_loop" /\ t <= Len(allTeams)
  /\ ~SkipsTeam(allTeams[t])
  /\ CallFetch(MembershipsUrl(allTeams[t].id))
  /\ pc' = "memberships_fetch"
  /\ UNCHANGED << userMap, orgItems, orgUsers, spaceItems, spaceUsers, allTeams,
                  teamMemberships, userToTeams, i, t, finalData, written,
                  errorLogged, exitCode >>
  /\ keepEnv

\* Lines 99-102: only allItems of the result is bound; allUsers is dropped.
MembershipsFetched ==
  /\ pc = "memberships_fetch" /\ fpc = "done"
  /\ teamMemberships' = allItems
  /\ fpc' = "idle" /\ i' = 1 /\ pc' = "member_loop"
  /\ UNCHANGED << url, skip, allItems, allUsers, inflight, requests, responses >>
  /\ UNCHANGED << userMap, orgItems, orgUsers, spaceItems, spaceUsers, allTeams,
                  userToTeams, t, finalData, written, errorLogged, exitCode >>
  /\ keepEnv

\* Lines 104-111.
MemberItem ==
  /\ pc = "member_loop" /\ i <= Len(teamMemberships)
  /\ userToTeams' = AddTeam(userToTeams, teamMemberships[i], allTeams[t].name)
  /\ i' = i + 1
  /\ UNCHANGED fetchVars
  /\ UNCHANGED << pc, userMap, orgItems, orgUsers, spaceItems, spaceUsers, allTeams,
                  teamMemberships, t, finalData, written, errorLogged, exitCode >>
  /\ keepEnv

\* Lines 93, 112: the next team.
NextTeam ==
  /\ pc = "member_loop" /\ i > Len(teamMemberships)
  /\ t' = t + 1 /\ pc' = "team_loop"
  /\ UNCHANGED fetchVars
  /\ UNCHANGED << userMap, orgItems, orgUsers, spaceItems, spaceUsers, allTeams,
                  teamMemberships, userToTeams, i, finalData, written,
                  errorLogged, exitCode >>
  /\ keepEnv

\* Lines 114, 223: fetchTeamMemberships returns userToTeams.
TeamsReturned ==
  /\ pc = "team_loop" /\ t > Len(allTeams)
  /\ i' = 1 /\ pc' = "team_pass"
  /\ UNCHANGED fetchVars
  /\ UNCHANGED << userMap, orgItems, orgUsers, spaceItems, spaceUsers, allTeams,
                  teamMemberships, userToTeams, t, finalData, written,
                  errorLogged, exitCode >>
  /\ keepEnv

\* Lines 224-238.
TeamEntry ==
  /\ pc = "team_pass" /\ i <= Len(userToTeams)
  /\ userMap' = MergeTeams(userMap, userToTeams[i].userId, userToTeams[i].teamNames)
  /\ i' = i + 1
  /\ UNCHANGED fetchVars
  /\ UNCHANGED << pc, orgItems, orgUsers, spaceItems, spaceUsers, allTeams,
                  teamMemberships, userToTeams, t, finalData, written,
                  errorLogged, exitCode >>
  /\ keepEnv

\* Lines 243-256: the rows are built and serialised.
Finalize ==
  /\ pc = "team_pass" /\ i > Len(userToTeams)
  /\ finalData' = [k \in 1..Len(userMap) |-> Row(userMap[k])]
  /\ pc' = "write"
  /\ UNCHANGED fetchVars
  /\ UNCHANGED << userMap, orgItems, orgUsers, spaceItems, spaceUsers, allTeams,
                  teamMemberships, userToTeams, i, t, written, errorLogged,
                  exitCode >>
  /\ keepEnv

\* Lines 257-258: fs.writeFileSync succeeded.
WriteOk ==
  /\ pc = "write"
  /\ written' = TRUE
  /\ pc' = "end"
  /\ UNCHANGED fetchVars
  /\ UNCHANGED << userMap, orgItems, orgUsers, spaceItems, spaceUsers, allTeams,
                  teamMemberships, userToTeams, i, t, finalData, errorLogged,
                  exitCode >>
  /\ keepEnv

\* Lines 257, 259-261: fs.writeFileSync threw; the catch logs the error.
WriteFail ==
  /\ pc = "write"
  /\ errorLogged' = TRUE
  /\ pc' = "end"
  /\ UNCHANGED fetchVars
  /\ UNCHANGED << userMap, orgItems, orgUsers, spaceItems, spaceUsers, allTeams,
                  teamMemberships, userToTeams, i, t, finalData, written,
                  exitCode >>
  /\ keepEnv

\* The status the process ends with once the async function has settled:
\* neither branch of lines 146-261 sets process.exitCode or calls
\* process.exit, so the runtime's default, 0, is used.
ExitStatus == 0

\* Line 262: the async function has settled and the process ends.
Exit ==
  /\ pc = "end"
  /\ exitCode' = ExitStatus
  /\ pc' = "exited"
  /\ UNCHANGED fetchVars
  /\ UNCHANGED << userMap, orgItems, orgUsers, spaceItems, spaceUsers, allTeams,
                  teamMemberships, userToTeams, i, t, finalData, written,
                  errorLogged >>
  /\ keepEnv

Init ==
  /\ \E o \in Windows(OrgFeed, MaxItems), s \in Windows(SpaceFeed, MaxItems),
        ts \in Windows(TeamFeed, MaxTeams), inc \in {"all", "not_org"} :
       server = [org |-> o, space |-> s, teams |-> ts, includes |-> inc]
  /\ pc = "start" /\ userMap = << >>
  /\ orgItems = << >> /\ orgUsers = EmptyMap
  /\ spaceItems = << >> /\ spaceUsers = EmptyMap
  /\ allTeams = << >> /\ teamMemberships = << >> /\ userToTeams = << >>
  /\ i = 0 /\ t = 0 /\ finalData = << >>
  /\ written = FALSE /\ errorLogged = FALSE /\ exitCode = -1
  /\ fpc = "idle" /\ url = OrgUrl /\ skip = 0
  /\ allItems = << >> /\ allUsers = EmptyMap
  /\ inflight = 0 /\ requests = << >> /\ responses = << >>
  /\ membership = Item("", FALSE, <<>>, "") /\ result = << >>

Next ==
  \/ CallOrg \/ Request \/ RespondOk \/ RespondFail \/ OrgFetched \/ OrgItem
  \/ CallSpace \/ SpaceFetched \/ SpaceItem
  \/ CallTeams \/ TeamsFetched \/ TeamSkip \/ CallMemberships
  \/ MembershipsFetched \/ MemberItem \/ NextTeam \/ TeamsReturned
  \/ TeamEntry \/ Finalize \/ WriteOk \/ WriteFail \/ Exit

Spec == Init /\ [][Next]_vars

\* ------------------------------------------------- standalone fetch runs
\* A dataset of n organization memberships, the feed repeated.
Dataset(n) == Window(OrgFeed, 1, n)

Idle ==
  /\ pc = "none" /\ userMap = << >>
  /\ orgItems = << >> /\ orgUsers = EmptyMap
  /\ spaceItems = << >> /\ spaceUsers = EmptyMap
  /\ allTeams = << >> /\ teamMemberships = << >> /\ userToTeams = << >>
  /\ i = 0 /\ t = 0 /\ finalData = << >>
  /\ written = FALSE /\ errorLogged = FALSE /\ exitCode = -1

InitFetch ==
  /\ \E n \in 0..MaxTotal, inc \in {"all", "none"} :
       server = [org |-> Dataset(n), space |-> << >>, teams |-> << >>, includes |-> inc]
  /\ Idle
  /\ fpc = "request" /\ url = OrgUrl /\ skip = 0
  /\ allItems = << >> /\ allUsers = EmptyMap
  /\ inflight = 0 /\ requests = << >> /\ responses = << >>
  /\ membership = Item("", FALSE, <<>>, "") /\ result = << >>

NextFetch == Request \/ RespondOk \/ RespondFail

SpecFetch == InitFetch /\ [][NextFetch]_vars

\* --------------------------------------------- standalone getRoleNames calls
RoleEntries == {Named("Admin"), Named("Editor"), Named("")}

RoleLists == UNION {[1..n -> RoleEntries] : n \in 0..MaxRoles}

Memberships ==
  {Item("U1", a, rs, r) : a \in BOOLEAN, rs \in RoleLists,
                          r \in {"", "Admin", "Editor", "Owner"}}

InitRoles ==
  /\ server = [org |-> << >>, space |-> << >>, teams |-> << >>, includes |-> "all"]
  /\ Idle
  /\ fpc = "idle" /\ url = OrgUrl /\ skip = 0
  /\ allItems = << >> /\ allUsers = EmptyMap
  /\ inflight = 0 /\ requests = << >> /\ responses = << >>
  /\ membership \in Memberships /\ result = << >>

\* Line 160 / 195: getRoleNames(membership) is called and returns.
CallGetRoleNames ==
  /\ pc = "none" /\ fpc = "idle"
  /\ result' = getRoleNames(membership)
  /\ pc' = "returned"
  /\ UNCHANGED fetchVars
  /\ UNCHANGED << server, membership, userMap, orgItems, orgUsers, spaceItems,
                  spaceUsers, allTeams, teamMemberships, userToTeams, i, t,
                  finalData, written, errorLogged, exitCode >>

NextRoles == CallGetRoleNames

SpecRoles == InitRoles /\ [][NextRoles]_vars

\* ======================================================================
\* Properties
\* ======================================================================
NoDuplicates(xs) == \A p, q \in 1..Len(xs) : xs[p] = xs[q] => p = q

Elements(xs) == {xs[k] : k \in 1..Len(xs)}

FirstPos(xs, x) == CHOOSE k \in 1..Len(xs) : xs[k] = x /\ \A j \in 1..(k-1) : xs[j] # x

\* ys lists every element of xs once, in the order of first occurrence in xs.
InEncounterOrder(xs, ys) ==
  /\ NoDuplicates(ys)
  /\ Elements(ys) = Elements(xs)
  /\ \A p, q \in 1..Len(ys) : p < q => FirstPos(xs, ys[p]) < FirstPos(xs, ys[q])

OkCount == Cardinality({k \in 1..Len(responses) : responses[k].ok})

AllOk == \A k \in 1..Len(responses) : responses[k].ok

\* C2: in fetchPagedDataWithIncludes the first failed request is the last
\* request of the call: nothing is issued after it, no offset is requested
\* twice, and the call returns normally with exactly the items and the user
\* side-table of the pages that succeeded before it.
C2_FailureEndsPagination ==
  /\ \A k \in 1..Len(responses) : ~responses[k].ok => k = Len(responses) /\ fpc = "done"
  /\ \A k \in 1..Len(requests) : requests[k].skip = (k - 1) * 100
  /\ fpc = "done" =>
       /\ Len(requests) = Len(responses) /\ inflight = 0
       /\ allItems = SubSeq(Data(url), 1, Min(OkCount * 100, Len(Data(url))))
       /\ DOMAIN allUsers = UNION {DOMAIN responses[k].users : k \in 1..Len(responses)}
       /\ \A id \in DOMAIN allUsers : allUsers[id] = UserObjects[id]

C2_Witness ==
  /\ fpc = "done" /\ Len(responses) = 3 /\ ~responses[3].ok
  /\ Len(allItems) = 200 /\ Len(Data(url)) = 250
  /\ DOMAIN allUsers = {"U1"}

\* C3: with no failed request, the requests of a call have page size 100 and
\* offsets 0, 100, 200, ..., every offset after the first being below the
\* total; the call ends with all items in server order, after 3 requests for
\* a total of 250 and after one request, with nothing, for a total of 0.
C3_PaginationTerminates ==
  LET total == Len(Data(url))
      pages == IF total = 0 THEN 1 ELSE (total + 99) \div 100
  IN /\ \A k \in 1..Len(requests) :
          /\ requests[k].limit = 100
          /\ requests[k].skip = (k - 1) * 100
          /\ k > 1 => requests[k].skip < total
     /\ (fpc = "done" /\ AllOk) =>
          /\ Len(requests) = pages
          /\ allItems = Data(url)
          /\ total = 250 => [k \in 1..3 |-> requests[k].skip] = <<0, 100, 200>>
                            /\ Len(requests) = 3 /\ Len(allItems) = 250
          /\ total = 0 => Len(requests) = 1 /\ allItems = << >>

C3_Witness ==
  /\ fpc = "done" /\ AllOk /\ Len(Data(url)) = 250
  /\ Len(requests) = 3 /\ Len(allItems) = 250

\* C8: getRoleNames returns a duplicate-free list: "Admin" when the admin
\* flag is set, then the names of the roles entries in list order (entries
\* without a name skipped), then the legacy role; a name that occurs more
\* than once is kept at its first position.
C8_RoleNamesOrdered ==
  pc = "returned" =>
    LET m     == membership
        names == {m.roles[k].name : k \in 1..Len(m.roles)} \ {""}
        rank(x) ==
          IF m.admin /\ x = "Admin" THEN 0
          ELSE IF x \in names
            THEN CHOOSE k \in 1..Len(m.roles) :
                   m.roles[k].name = x /\ \A j \in 1..(k-1) : m.roles[j].name # x
            ELSE Len(m.roles) + 1
    IN /\ NoDuplicates(result)
       /\ Elements(result) = (IF m.admin THEN {"Admin"} ELSE {}) \cup names
                               \cup (IF m.role # "" THEN {m.role} ELSE {})
       /\ \A p, q \in 1..Len(result) : p < q => rank(result[p]) < rank(result[q])

C8_Witness ==
  /\ pc = "returned"
  /\ membership.admin /\ membership.role = "Editor"
  /\ membership.roles = <<Named("Editor"), Named("Admin")>>
  /\ result = <<"Admin", "Editor">>

OkResponses(eps) ==
  SelectSeq(responses, LAMBDA r : r.ok /\ r.url.endpoint \in eps)

MembershipEndpoints ==
  {"organization_memberships", "space_memberships", "team_memberships"}

\* The user ids resolvable on the membership items of the pages received.
FetchedUserIds ==
  LET ok == OkResponses(MembershipEndpoints)
  IN UNION {{PageItems(ok[k].url, ok[k].skip, 100)[j].user :
               j \in 1..Len(PageItems(ok[k].url, ok[k].skip, 100))} :
            k \in 1..Len(ok)} \ {""}

UsersOf(items) == {items[k].user : k \in 1..Len(items)} \ {""}

Passed == pc \in {"write", "end", "exited"}

RowsExact ==
  LET ids == [k \in 1..Len(finalData) |-> finalData[k].userId]
  IN NoDuplicates(ids) /\ Elements(ids) = FetchedUserIds

NoUserItemStep ==
  \/ pc = "org_loop" /\ i <= Len(orgItems) /\ orgItems[i].user = "" /\ i' = i + 1
  \/ pc = "space_loop" /\ i <= Len(spaceItems) /\ spaceItems[i].user = "" /\ i' = i + 1
  \/ /\ pc = "member_loop" /\ i <= Len(teamMemberships)
     /\ teamMemberships[i].user = "" /\ i' = i + 1

\* C1: once the three passes are done the rows are one per distinct user id
\* resolvable on a fetched membership item of any source, and no others; a
\* step over an item without a user id changes neither the unified map nor
\* the user-to-teams map.
C1_OneRowPerUser ==
  [][ /\ Passed' => RowsExact'
      /\ NoUserItemStep => userMap' = userMap /\ userToTeams' = userToTeams ]_vars

C1_Witness ==
  /\ written
  /\ Len(finalData) = 3
  /\ \E k \in 1..Len(orgItems) : orgItems[k].user = ""
  /\ \E k \in 1..Len(spaceItems) : spaceItems[k].user = ""
  /\ "U3" \notin UsersOf(orgItems) \cup UsersOf(spaceItems)

RECURSIVE FoldOrg(_, _, _)
FoldOrg(um, items, users) ==
  IF items = << >> THEN um
  ELSE FoldOrg(MergeOrg(um, Head(items), users), Tail(items), users)

RECURSIVE FoldTeams(_, _)
FoldTeams(um, entries) ==
  IF entries = << >> THEN um
  ELSE FoldTeams(MergeTeams(um, Head(entries).userId, Head(entries).teamNames),
                 Tail(entries))

SpaceFirstPageFailed ==
  \E k \in 1..Len(responses) :
    responses[k].url = SpaceUrl /\ responses[k].skip = 0 /\ ~responses[k].ok

\* C4: when the first page of the space-memberships fetch fails, the run
\* goes on to the team collection and to the write; the rows are those of a
\* run whose space fetch returned no items, and no row has space roles.
C4_SpaceFailureIsSoft ==
  (SpaceFirstPageFailed /\ Passed) =>
    LET expected == FoldTeams(FoldOrg(<< >>, orgItems, orgUsers), userToTeams)
    IN /\ \E k \in 1..Len(requests) : requests[k].url = TeamsUrl
       /\ userMap = expected
       /\ finalData = [k \in 1..Len(expected) |-> Row(expected[k])]
       /\ \A k \in 1..Len(finalData) : finalData[k].spaceRoles = ""
       /\ pc = "exited" => written \/ errorLogged

C4_Witness ==
  /\ SpaceFirstPageFailed /\ pc = "exited" /\ written
  /\ Len(server.space) = 2
  /\ \E k \in 1..Len(finalData) : finalData[k].orgRoles = "Admin; Editor; Owner"
  /\ \E k \in 1..Len(finalData) :
       finalData[k].teams = "Ops; Design" /\ finalData[k].orgRoles = ""

\* C5: the process ends either with the file written and status zero, or,
\* after a top-level failure, with the error logged and a non-zero status.
C5_ExitStatus ==
  pc = "exited" =>
    \/ written /\ ~errorLogged /\ exitCode = 0
    \/ ~written /\ errorLogged /\ exitCode # 0

\* The side-table of the team pass: the user objects carried by the pages of
\* team memberships that were received.
TeamSide ==
  LET ok == OkResponses({"team_memberships"})
  IN [id \in UNION {DOMAIN ok[k].users : k \in 1..Len(ok)} |->
        ok[CHOOSE k \in 1..Len(ok) : id \in DOMAIN ok[k].users].users[id]]

\* C6: the email and name of every unified record are those of the
\* side-table entry for its user in the fetch of the pass that created it,
\* and empty only when that side-table has no entry for the user.
C6_CreationUsesSideTable ==
  \A k \in 1..Len(userMap) :
    LET id   == userMap[k].userId
        side == IF id \in UsersOf(orgItems) THEN orgUsers
                ELSE IF id \in UsersOf(spaceItems) THEN spaceUsers
                ELSE TeamSide
    IN /\ userMap[k].email = EmailOf(side, id)
       /\ userMap[k].name = NameOf(side, id)

IsPrefix(xs, ys) == Len(xs) <= Len(ys) /\ SubSeq(ys, 1, Len(xs)) = xs

\* C7: a unified record, once created, stays in the map with the same
\* userId, email and name; a step of a pass only extends the field of that
\* pass, also when email and name are empty and the pass has values.
C7_IdentityFixed ==
  [][ \A k \in 1..Len(userMap) :
        /\ k <= Len(userMap')
        /\ userMap'[k].userId = userMap[k].userId
        /\ userMap'[k].email = userMap[k].email
        /\ userMap'[k].name = userMap[k].name
        /\ IsPrefix(userMap[k].orgRoles, userMap'[k].orgRoles)
        /\ IsPrefix(userMap[k].spaceRoles, userMap'[k].spaceRoles)
        /\ IsPrefix(userMap[k].teams, userMap'[k].teams)
        /\ pc # "org_loop" => userMap'[k].orgRoles = userMap[k].orgRoles
        /\ pc # "space_loop" => userMap'[k].spaceRoles = userMap[k].spaceRoles
        /\ pc # "team_pass" => userMap'[k].teams = userMap[k].teams ]_vars

C7_Witness ==
  \E k \in 1..Len(userMap) :
    /\ userMap[k].email = "" /\ userMap[k].name = ""
    /\ userMap[k].orgRoles # << >> /\ userMap[k].spaceRoles # << >>
    /\ userMap[k].userId \in DOMAIN spaceUsers
    /\ spaceUsers[userMap[k].userId].email # ""

RECURSIVE RoleNamesOf(_, _)
RoleNamesOf(items, id) ==
  IF items = << >> THEN << >>
  ELSE (IF Head(items).user = id THEN getRoleNames(Head(items)) ELSE << >>)
         \o RoleNamesOf(Tail(items), id)

RECURSIVE TeamNamesOf(_, _)
TeamNamesOf(entries, id) ==
  IF entries = << >> THEN << >>
  ELSE (IF Head(entries).userId = id THEN Head(entries).teamNames ELSE << >>)
         \o TeamNamesOf(Tail(entries), id)

OrgDone == IF pc = "org_loop" THEN i - 1 ELSE Len(orgItems)

SpaceDone == IF pc = "space_loop" THEN i - 1 ELSE Len(spaceItems)

TeamsDone ==
  IF pc = "team_pass" THEN i - 1 ELSE IF Passed THEN Len(userToTeams) ELSE 0

\* C9: in every state each record's organization roles, space roles and
\* team names hold no name twice and list the names merged so far in the
\* order they were first met, so a name merged again changes nothing.
C9_CollectionsAreSets ==
  \A k \in 1..Len(userMap) :
    LET id == userMap[k].userId
    IN /\ InEncounterOrder(RoleNamesOf(SubSeq(orgItems, 1, OrgDone), id),
                           userMap[k].orgRoles)
       /\ InEncounterOrder(RoleNamesOf(SubSeq(spaceItems, 1, SpaceDone), id),
                           userMap[k].spaceRoles)
       /\ InEncounterOrder(TeamNamesOf(SubSeq(userToTeams, 1, TeamsDone), id),
                           userMap[k].teams)

C9_Witness ==
  /\ \E k \in 1..Len(userMap) :
       userMap[k].userId = "U1" /\ userMap[k].orgRoles = <<"Admin", "Editor", "Owner">>
  /\ \E k \in 1..Len(userMap) :
       userMap[k].userId = "U2" /\ userMap[k].teams = <<"Design">>
  /\ \E k \in 1..Len(userToTeams) :
       userToTeams[k].userId = "U2" /\ userToTeams[k].teamNames = <<"Design", "Design">>

Phase(u) ==
  CASE u.endpoint = "organization_memberships" -> 1
    [] u.endpoint = "space_memberships" -> 2
    [] u.endpoint = "teams" -> 3
    [] OTHER -> 4

\* The teams whose turn in the loop of fetchTeamMemberships has come.
TeamsReached ==
  IF pc = "memberships_fetch" THEN (IF fpc = "request" THEN t - 1 ELSE t)
  ELSE IF pc = "member_loop" THEN t
  ELSE IF pc = "team_loop" THEN t - 1
  ELSE IF pc = "team_pass" \/ Passed THEN Len(allTeams)
  ELSE 0

\* C10: at most one request is in flight and every request is answered
\* before the next is issued; requests go to the organization memberships,
\* then the space memberships, then the team list, then the teams'
\* memberships, one team after the other in team-list order; a team without
\* an identifier gets no request and gives no team name.
C10_Sequential ==
  /\ inflight \in {0, 1}
  /\ inflight = 1 <=> fpc = "await"
  /\ Len(requests) = Len(responses) + inflight
  /\ \A k \in 1..Len(responses) :
       responses[k].url = requests[k].url /\ responses[k].skip = requests[k].skip
  /\ \A j, k \in 1..Len(requests) :
       j < k => Phase(requests[j].url) <= Phase(requests[k].url)
  /\ LET asked   == SelectSeq(requests, LAMBDA r : r.url.endpoint = "team_memberships")
         reached == SelectSeq(SubSeq(allTeams, 1, TeamsReached), LAMBDA x : x.id # "")
     IN /\ [k \in 1..Len(asked) |-> asked[k].url.team]
             = [k \in 1..Len(reached) |-> reached[k].id]
        /\ \A k \in 1..Len(userToTeams) :
             \A n \in Elements(userToTeams[k].teamNames) :
               \E x \in Elements(reached) : x.name = n

C10_Witness ==
  /\ pc = "exited"
  /\ Len(allTeams) = 2 /\ allTeams[1].id = "" /\ allTeams[2].id = "T3"
  /\ Len(requests) = 4 /\ requests[4].url = MembershipsUrl("T3")
  /\ Len(userToTeams) = 2

====
